---- MODULE Spec2Model ----
(***************************************************************************)
(* Two-zone thermal simulation of temp_control.py: module-level            *)
(* parameters, run_simulation (explicit Euler loop, proportional regulator *)
(* with saturation and an 800 W floor, Gaussian noise on the monitored     *)
(* zone) and the trailing-window mean of the script.                       *)
(*                                                                         *)
(* Numbers are fixed-point integers: temperatures in micro-degrees C       *)
(* (1e-6 C), heat flows in milliwatts, times in seconds.  Every quotient   *)
(* is a floor; products are split (MulDiv) so that every intermediate      *)
(* value fits the 32-bit integers of the model checker.                    *)
(***************************************************************************)
EXTENDS Integers, Sequences, FiniteSets, TLC

VARIABLES
    total_time,   \* line 15: simulation duration (s)
    dt,           \* line 14: time step (s)
    T_init,       \* line 32: initial indoor temperature (micro-C)
    add_noise,    \* argument of both run_simulation calls (lines 130-131)
    order,        \* the case_type of the first and of the second call
    seed,         \* state of numpy's global generator when the script starts
    rng,          \* current state of numpy's global generator
    time_steps,   \* line 16
    pc,           \* position of the script
    err,          \* the exception that ended the script, or "none"
    call,         \* index in order of the call being executed
    k,            \* loop index of run_simulation (number of Euler updates done)
    cool_out,     \* the cooling output computed by the last loop iteration
    T1, T2,       \* the arrays of the running call (functions on 0..N-1)
    T1_c, T2_c,   \* the arrays returned for each case (lines 130-131)
    final_t2      \* lines 145-146: trailing-window mean per case

vars == <<total_time, dt, T_init, add_noise, order, seed, rng, time_steps,
          pc, err, call, k, cool_out, T1, T2, T1_c, T2_c, final_t2>>

----------------------------------------------------------------------------
(* Bounds of the parametric specification SpecCfg *)
MaxTotal == 7
MaxDt == 3
MaxSeed == 5

----------------------------------------------------------------------------
(* Program constants, in the fixed-point units *)
Scale == 1000 * 1000        \* micro-degrees per degree
total_time_0 == 5400        \* 90 * 60 s
dt_0 == 1                   \* 1.0 s
rho_air == 1225             \* 1.225 kg/m^3, in g/m^3
cp_air == 1005              \* J/kg-K
vol_1 == 35
vol_2 == 70
CapUnit == 625              \* capacitances are kept in units of 0.625 J/K
CapScale == 1600            \* micro-C per (mW s) per (0.625 J/K): 10^6 / 625
C1 == (rho_air * vol_1 * cp_air) \div CapUnit      \* 43089.375 J/K
C2 == (rho_air * vol_2 * cp_air) \div CapUnit      \* 86178.75 J/K
T_amb == 30000000           \* 30.0 C
T_init_0 == 28000000        \* 28.0 C
AC_power_max == 5200000     \* 5200 W, in mW
AC_setpoint == 16000000     \* 16.0 C
Fan_power_heat == 40000     \* 40 W, in mW
R_wall1 == 20               \* 0.020 K/W, in mK/W
R_wall2 == 11               \* 0.011 K/W, in mK/W
U_natural == 35             \* W/K
U_forced_num == 9849        \* U_forced = 200/3600 * 1.225 * 1005 W/K
U_forced_den == 144         \*          = 9849/144 = 68.3958...
Gain == 2                   \* the factor 2.0 of line 104
MinActive == 800000         \* the 800 W floor of line 105, in mW
NoiseSd == 120000           \* 0.12 C, the standard deviation of line 121
Window == 500               \* the [-500:] slices of lines 145-146

----------------------------------------------------------------------------
(* Arithmetic *)

Abs(x) == IF x < 0 THEN -x ELSE x
Min(a, b) == IF a < b THEN a ELSE b

\* floor(a * b / c) for b > 0, c > 0 without forming a * b
MulDiv(a, b, c) == (a \div c) * b + ((a % c) * b) \div c

\* Python's int(a / b) for b # 0: the quotient truncated toward zero
CeilDiv(a, b) ==
    IF (a < 0) = (b < 0) THEN (Abs(a) + Abs(b) - 1) \div Abs(b)
    ELSE -(Abs(a) \div Abs(b))
TruncDiv(a, b) ==
    IF (a < 0) = (b < 0) THEN Abs(a) \div Abs(b) ELSE -(Abs(a) \div Abs(b))

----------------------------------------------------------------------------
(* run_simulation: parameter selection, heat flows, regulator, Euler step *)

\* lines 80-85: the coupling as a fraction <<num, den>> in W/K
CouplingSwapped(case_type) ==
    IF case_type = 2 THEN <<U_natural, 1>> ELSE <<U_forced_num, U_forced_den>>
Coupling(case_type) ==
    IF case_type = 1 THEN <<U_natural, 1>> ELSE <<U_forced_num, U_forced_den>>

FanHeat(case_type) == IF case_type = 1 THEN 0 ELSE Fan_power_heat

\* lines 92-93
QWall(t, R) == (T_amb - t) \div R

\* line 97, in mW: (t2 - t1) * coupling
QCrossReversed(t1, t2, case_type) ==
    MulDiv(t1 - t2, Coupling(case_type)[1], Coupling(case_type)[2] * 1000)
QCross(t1, t2, case_type) ==
    MulDiv(t2 - t1, Coupling(case_type)[1], Coupling(case_type)[2] * 1000)

\* lines 101-107
CoolOutNoFloor(t1) ==
    IF t1 > AC_setpoint
    THEN Min(AC_power_max,
             MulDiv(t1 - AC_setpoint, (AC_power_max \div 1000) * Gain, 1000))
    ELSE 0
CoolOutBangBang(t1) == IF t1 > AC_setpoint THEN AC_power_max ELSE 0
CoolOutHalfGain(t1) ==
    IF t1 > AC_setpoint
    THEN LET raw == Min(AC_power_max,
                        MulDiv(t1 - AC_setpoint, AC_power_max \div 1000, 1000))
         IN  IF raw < MinActive THEN MinActive ELSE raw
    ELSE 0
CoolOut(t1) ==
    IF t1 > AC_setpoint
    THEN LET raw == Min(AC_power_max,
                        MulDiv(t1 - AC_setpoint,
                               (AC_power_max \div 1000) * Gain, 1000))
         IN  IF raw < MinActive THEN MinActive ELSE raw
    ELSE 0

\* lines 111 and 116
NextT1(t1, t2, case_type, h) ==
    t1 + MulDiv((QWall(t1, R_wall1) + QCross(t1, t2, case_type)
                 + FanHeat(case_type) - CoolOut(t1)) * h, CapScale, C1)

\* lines 114 and 117
NextT2SameSign(t1, t2, case_type, h) ==
    t2 + MulDiv((QWall(t2, R_wall2) + QCross(t1, t2, case_type)) * h,
                CapScale, C2)
NextT2(t1, t2, case_type, h) ==
    t2 + MulDiv((QWall(t2, R_wall2) - QCross(t1, t2, case_type)) * h,
                CapScale, C2)

\* lines 88-117: the pair <<T1[k+1], T2[k+1]>> from the pair p = <<T1[k], T2[k]>>
EulerStep(p, case_type, h) ==
    <<NextT1(p[1], p[2], case_type, h), NextT2(p[1], p[2], case_type, h)>>

RECURSIVE Trajectory(_, _, _, _)
\* lines 87-117 as a whole: the n >= 1 successive pairs starting with p,
\* as a sequence; the halves are computed one after the other so that the
\* evaluation nests only log n deep
Trajectory(p, n, case_type, h) ==
    IF n = 1 THEN <<p>>
    ELSE LET m == n \div 2
             a == Trajectory(p, m, case_type, h)
             b == Trajectory(EulerStep(a[m], case_type, h), n - m,
                             case_type, h)
         IN  a \o b

----------------------------------------------------------------------------
(* numpy's global generator, abstracted to a small full-period linear      *)
(* congruential generator; a draw advances the state and maps it to one of *)
(* five symmetric values around 0 (multiples of half the deviation).       *)

RngMod == 16
RngMul == 5
RngInc == 3
RngNext(s) == (RngMul * s + RngInc) % RngMod
NormalOf(s) == ((s % 5) - 2) * (NoiseSd \div 2)

RECURSIVE Stream(_, _)
\* the n successive generator states that follow state s
Stream(s, n) ==
    IF n = 0 THEN <<>>
    ELSE IF n = 1 THEN <<RngNext(s)>>
    ELSE LET m == n \div 2
             a == Stream(s, m)
         IN  a \o Stream(a[m], n - m)

\* line 121: np.random.normal(0, 0.12, n) drawn from generator state s
Normal(s, n) == LET st == Stream(s, n) IN [i \in 0..(n - 1) |-> NormalOf(st[i + 1])]

\* the generator state after n draws from state s
RngAfter(s, n) == IF n = 0 THEN s ELSE Stream(s, n)[n]

\* line 122: T2 + noise, a new array of the same length
AddArrays(A, noise) == [i \in DOMAIN A |-> A[i] + noise[i]]

\* lines 72-124 as a whole, for n >= 1 steps: the returned arrays and the
\* generator state left behind
RunSimulation(case_type, noisy, s, n, h, ti) ==
    LET tr == Trajectory(<<ti, ti>>, n, case_type, h)
        clean1 == [i \in 0..(n - 1) |-> tr[i + 1][1]]
        clean2 == [i \in 0..(n - 1) |-> tr[i + 1][2]]
    IN  [T1  |-> clean1,
         T2  |-> IF noisy THEN AddArrays(clean2, Normal(s, n)) ELSE clean2,
         rng |-> IF noisy THEN RngAfter(s, n) ELSE s]

----------------------------------------------------------------------------
(* Result reducer: np.mean(T[-500:]) of lines 145-146 *)

RECURSIVE SumDiv(_, _, _, _)
\* sum over lo..hi of T[i] \div n
SumDiv(T, lo, hi, n) ==
    IF lo > hi THEN 0
    ELSE IF lo = hi THEN T[lo] \div n
    ELSE LET mid == (lo + hi) \div 2
         IN  SumDiv(T, lo, mid, n) + SumDiv(T, mid + 1, hi, n)

RECURSIVE SumMod(_, _, _, _)
\* sum over lo..hi of T[i] % n
SumMod(T, lo, hi, n) ==
    IF lo > hi THEN 0
    ELSE IF lo = hi THEN T[lo] % n
    ELSE LET mid == (lo + hi) \div 2
         IN  SumMod(T, lo, mid, n) + SumMod(T, mid + 1, hi, n)

Len0(T) == Cardinality(DOMAIN T)

\* first index of the slice T[-Window:]: a slice longer than the array is
\* the whole array
SliceStart(T) == IF Len0(T) > Window THEN Len0(T) - Window ELSE 0

\* floor of the arithmetic mean of T[-Window:], the sum being kept as a
\* quotient part and a remainder part; "nan" for an empty array
TrailingMean(T) ==
    LET lo == SliceStart(T)
        hi == Len0(T) - 1
        n  == hi - lo + 1
    IN  IF n = 0 THEN "nan"
        ELSE SumDiv(T, lo, hi, n) + (SumMod(T, lo, hi, n) \div n)

----------------------------------------------------------------------------
(* The script *)

Empty == [i \in {} |-> 0]
Zeros(n) == [i \in 0..(n - 1) |-> 0]

\* lines 14-17: time_steps = int(total_time / dt) and the time axis.
\* A zero dt raises ZeroDivisionError at line 16, a negative step count
\* raises ValueError in np.linspace at line 17.
Setup ==
    /\ pc = "params"
    /\ IF dt = 0
       THEN /\ pc' = "error"
            /\ err' = "ZeroDivisionError"
            /\ UNCHANGED time_steps
       ELSE /\ time_steps' = TruncDiv(total_time, dt)
            /\ IF TruncDiv(total_time, dt) < 0
               THEN pc' = "error" /\ err' = "ValueError"
               ELSE pc' = "call" /\ UNCHANGED err
    /\ UNCHANGED <<total_time, dt, T_init, add_noise, order, seed, rng,
                   call, k, cool_out, T1, T2, T1_c, T2_c, final_t2>>

\* lines 72-85: entry of run_simulation. Writing index 0 of an empty array
\* raises IndexError.
Call ==
    /\ pc = "call"
    /\ IF time_steps = 0
       THEN /\ pc' = "error"
            /\ err' = "IndexError"
            /\ T1' = Zeros(0)
            /\ T2' = Zeros(0)
       ELSE /\ pc' = "loop"
            /\ T1' = [Zeros(time_steps) EXCEPT ![0] = T_init]
            /\ T2' = [Zeros(time_steps) EXCEPT ![0] = T_init]
            /\ UNCHANGED err
    /\ k' = 0
    /\ UNCHANGED <<total_time, dt, T_init, add_noise, order, seed, rng,
                   time_steps, call, cool_out, T1_c, T2_c, final_t2>>

\* lines 87-117: one iteration of the Euler loop
Step ==
    /\ pc = "loop"
    /\ k < time_steps - 1
    /\ cool_out' = CoolOut(T1[k])
    /\ T1' = [T1 EXCEPT ![k + 1] = NextT1(T1[k], T2[k], order[call], dt)]
    /\ T2' = [T2 EXCEPT ![k + 1] = NextT2(T1[k], T2[k], order[call], dt)]
    /\ k' = k + 1
    /\ UNCHANGED <<total_time, dt, T_init, add_noise, order, seed, rng,
                   time_steps, pc, err, call, T1_c, T2_c, final_t2>>

\* lines 119-122: after the loop, the optional noise on T2
NoiseBoth ==
    /\ pc = "loop"
    /\ k >= time_steps - 1
    /\ IF add_noise
       THEN /\ T2' = AddArrays(T2, Normal(rng, time_steps))
            /\ T1' = AddArrays(T1, Normal(rng, time_steps))
            /\ rng' = RngAfter(rng, time_steps)
       ELSE UNCHANGED <<T1, T2, rng>>
    /\ pc' = "return"
    /\ UNCHANGED <<total_time, dt, T_init, add_noise, order, seed,
                   time_steps, err, call, k, cool_out, T1_c, T2_c, final_t2>>
Noise ==
    /\ pc = "loop"
    /\ k >= time_steps - 1
    /\ IF add_noise
       THEN /\ T2' = AddArrays(T2, Normal(rng, time_steps))
            /\ rng' = RngAfter(rng, time_steps)
       ELSE UNCHANGED <<T2, rng>>
    /\ pc' = "return"
    /\ UNCHANGED <<total_time, dt, T_init, add_noise, order, seed,
                   time_steps, err, call, k, cool_out, T1, T1_c, T2_c,
                   final_t2>>

\* line 124 and the assignments of lines 130-131
Return ==
    /\ pc = "return"
    /\ T1_c' = [T1_c EXCEPT ![order[call]] = T1]
    /\ T2_c' = [T2_c EXCEPT ![order[call]] = T2]
    /\ IF call < Len(order)
       THEN call' = call + 1 /\ pc' = "call"
       ELSE UNCHANGED call /\ pc' = "reduce"
    /\ UNCHANGED <<total_time, dt, T_init, add_noise, order, seed, rng,
                   time_steps, err, k, cool_out, T1, T2, final_t2>>

\* lines 130-131: one whole call of run_simulation and the assignment of
\* what it returns
RunCase ==
    /\ pc = "call"
    /\ IF time_steps = 0
       THEN /\ pc' = "error"
            /\ err' = "IndexError"
            /\ UNCHANGED <<rng, call, T1_c, T2_c>>
       ELSE /\ LET r == RunSimulation(order[call], add_noise, rng,
                                      time_steps, dt, T_init)
               IN  /\ T1_c' = [T1_c EXCEPT ![order[call]] = r.T1]
                   /\ T2_c' = [T2_c EXCEPT ![order[call]] = r.T2]
                   /\ rng' = r.rng
            /\ IF call < Len(order)
               THEN call' = call + 1 /\ pc' = "call"
               ELSE UNCHANGED call /\ pc' = "reduce"
            /\ UNCHANGED err
    /\ UNCHANGED <<total_time, dt, T_init, add_noise, order, seed,
                   time_steps, k, cool_out, T1, T2, final_t2>>

\* lines 145-146
Reduce ==
    /\ pc = "reduce"
    /\ final_t2' = [c \in {1, 2} |-> TrailingMean(T2_c[c])]
    /\ pc' = "done"
    /\ UNCHANGED <<total_time, dt, T_init, add_noise, order, seed, rng,
                   time_steps, err, call, k, cool_out, T1, T2, T1_c, T2_c>>

\* the state common to every start of the script
Start ==
    /\ rng = seed
    /\ time_steps = 0
    /\ pc = "params"
    /\ err = "none"
    /\ call = 1
    /\ k = 0
    /\ cool_out = 0
    /\ T1 = Empty
    /\ T2 = Empty
    /\ T1_c = [c \in {1, 2} |-> Empty]
    /\ T2_c = [c \in {1, 2} |-> Empty]
    /\ final_t2 = [c \in {1, 2} |-> "none"]

\* The configured scenario of lines 14-58: the two calls in either order,
\* with and without noise, from each generator state; each call is one step
Init ==
    /\ total_time = total_time_0
    /\ dt = dt_0
    /\ T_init = T_init_0
    /\ add_noise \in BOOLEAN
    /\ order \in {<<1, 2>>, <<2, 1>>}
    /\ seed \in 0..MaxSeed
    /\ Start

Next == Setup \/ RunCase \/ Reduce

Spec == Init /\ [][Next]_vars

\* The script over small configurations, one loop iteration per step
InitTemps == {15000000, 16000000, 16050000, 16300000, T_init_0}

InitCfg ==
    /\ total_time \in 0..MaxTotal
    /\ dt \in -1..MaxDt
    /\ T_init \in InitTemps
    /\ add_noise \in BOOLEAN
    /\ order \in {<<1, 2>>, <<2, 1>>}
    /\ seed \in 0..MaxSeed
    /\ Start

NextCfg == Setup \/ Call \/ Step \/ Noise \/ Return \/ Reduce

SpecCfg == InitCfg /\ [][NextCfg]_vars

----------------------------------------------------------------------------
(* Helpers of the properties *)

\* Python's round(a / b) for a >= 0, b > 0: nearest integer, ties to even
RoundDiv(a, b) ==
    LET q == a \div b
        r == a % b
    IN  IF 2 * r < b THEN q
        ELSE IF 2 * r > b THEN q + 1
        ELSE IF q % 2 = 0 THEN q ELSE q + 1

RECURSIVE MaxOver(_, _, _)
MaxOver(T, lo, hi) ==
    IF lo = hi THEN T[lo]
    ELSE LET mid == (lo + hi) \div 2
             a == MaxOver(T, lo, mid)
             b == MaxOver(T, mid + 1, hi)
         IN  IF a > b THEN a ELSE b

RECURSIVE MinOver(_, _, _)
MinOver(T, lo, hi) ==
    IF lo = hi THEN T[lo]
    ELSE LET mid == (lo + hi) \div 2
             a == MinOver(T, lo, mid)
             b == MinOver(T, mid + 1, hi)
         IN  IF a < b THEN a ELSE b

\* max - min of T over its last Window entries
Band(T) ==
    MaxOver(T, Len0(T) - Window, Len0(T) - 1)
    - MinOver(T, Len0(T) - Window, Len0(T) - 1)

\* the values one noise sample can take
NoiseValues == {NormalOf(s) : s \in 0..(RngMod - 1)}

\* what the configuration rules of the error taxonomy accept
ValidConfig ==
    /\ C1 > 0
    /\ C2 > 0
    /\ R_wall1 > 0
    /\ R_wall2 > 0
    /\ dt > 0
    /\ total_time \div dt >= Window
    /\ MinActive < AC_power_max

\* what a call of run_simulation for case c returns when it is the only
\* call made from the generator state the script started with
Alone(c) == RunSimulation(c, add_noise, seed, time_steps, dt, T_init)

\* some Euler update has been performed, or some steady-state mean computed
Simulated ==
    \/ k > 0
    \/ \E c \in {1, 2} : final_t2[c] # "none"

Tol001 == Scale \div 100         \* 0.01 C
Tol015 == (15 * Scale) \div 100  \* 0.15 C
Tol005 == Scale \div 20          \* 0.05 C
SettleBy == 10 * 100             \* step 1000

\* from some index below SettleBy on, T stays within tol of the setpoint
SettlesWithin(T, tol) ==
    \E k0 \in 0..(SettleBy - 1) :
        \A j \in k0..(Len0(T) - 1) : Abs(T[j] - AC_setpoint) <= tol

----------------------------------------------------------------------------
(* C1: after every loop iteration, the cooling output computed from the   *)
(* temperature T1[k-1] the iteration read is 0 when that temperature is   *)
(* at or below the setpoint and lies in [800 W, AC_power_max] otherwise,  *)
(* so it is never strictly between 0 and 800 W.                           *)
C1_RegulatorRange ==
    (pc = "loop" /\ k > 0) =>
        /\ T1[k - 1] <= AC_setpoint => cool_out = 0
        /\ T1[k - 1] > AC_setpoint =>
               (cool_out >= MinActive /\ cool_out <= AC_power_max)
        /\ ~(0 < cool_out /\ cool_out < MinActive)

\* an iteration that read a temperature just above the setpoint, where the
\* proportional term is below the floor, and output the floor
C1_Witness ==
    /\ pc = "loop"
    /\ k > 0
    /\ T1[k - 1] > AC_setpoint
    /\ (T1[k - 1] - AC_setpoint) * 10400 < MinActive * 1000
    /\ cool_out = MinActive

(* C2: every loop iteration writes exactly the forward-Euler update        *)
(* computed from the state at k only: T1[k+1] = T1[k] + (q_wall1 + q_cross *)
(* + auxiliary heat - cooling output) / C1 * dt and T2[k+1] = T2[k] +      *)
(* (q_wall2 - q_cross) / C2 * dt, the same q_cross entering zone 1 with +  *)
(* and zone 2 with -, and leaves every other entry of the arrays alone.    *)
C2_EulerUpdate ==
    [][(pc = "loop" /\ k' = k + 1) =>
        LET t1 == T1[k]
            t2 == T2[k]
            q_wall1 == (T_amb - t1) \div R_wall1
            q_wall2 == (T_amb - t2) \div R_wall2
            q_cross == IF order[call] = 1
                       THEN MulDiv(t2 - t1, U_natural, 1000)
                       ELSE MulDiv(t2 - t1, U_forced_num, U_forced_den * 1000)
            aux == IF order[call] = 1 THEN 0 ELSE Fan_power_heat
            dT1 == MulDiv((q_wall1 + q_cross + aux - cool_out') * dt,
                          CapScale, C1)
            dT2 == MulDiv((q_wall2 - q_cross) * dt, CapScale, C2)
        IN  /\ T1'[k + 1] = t1 + dT1
            /\ T2'[k + 1] = t2 + dT2
            /\ \A j \in DOMAIN T1 : j # k + 1 => T1'[j] = T1[j] /\ T2'[j] = T2[j]
            /\ DOMAIN T1' = DOMAIN T1
            /\ DOMAIN T2' = DOMAIN T2]_vars

\* two iterations done in the forced case with the zones at different
\* temperatures, so that q_cross is not zero
C2_Witness ==
    /\ pc = "loop"
    /\ k >= 2
    /\ order[call] = 2
    /\ T1[k - 1] # T2[k - 1]
    /\ T2[k] # T2[k - 1]

C4_NoStepWhenInvalid == ~ValidConfig => ~Simulated

(* C5: when a call returns, T1 is element for element the clean integrated *)
(* trajectory, T2 has the length of the clean T2 and differs from it by    *)
(* one noise sample per entry (by nothing without noise), and the noise    *)
(* was added after the last Euler update.                                  *)
C5_NoiseOnlyOnT2 ==
    pc = "return" =>
        LET clean == RunSimulation(order[call], FALSE, seed, time_steps, dt,
                                   T_init)
        IN  /\ T1 = clean.T1
            /\ DOMAIN T2 = DOMAIN clean.T2
            /\ Len0(T2) = time_steps
            /\ k = time_steps - 1
            /\ \A i \in DOMAIN T2 :
                   IF add_noise THEN T2[i] - clean.T2[i] \in NoiseValues
                   ELSE T2[i] = clean.T2[i]

\* a noisy call of at least three samples returns with T2 perturbed
C5_Witness ==
    /\ pc = "return"
    /\ add_noise
    /\ time_steps >= 3
    /\ \E i \in DOMAIN T2 :
           T2[i] # RunSimulation(order[call], FALSE, seed, time_steps, dt,
                                 T_init).T2[i]

(* C6: each case's returned pair (T1, T2) is the pair that case returns    *)
(* when executed alone, whatever the order of the two calls.               *)
C6_RunsIndependent ==
    pc = "done" =>
        \A c \in {1, 2} : T1_c[c] = Alone(c).T1 /\ T2_c[c] = Alone(c).T2

(* C7 as stated: in each case T1 is within 0.01 C of the setpoint from     *)
(* some step below 1000 to the end of the run.                             *)
C7_Original ==
    pc = "done" => \A c \in {1, 2} : SettlesWithin(T1_c[c], Tol001)

(* C7 amended: in each case T1 is within 0.15 C of the setpoint from some  *)
(* step below 1000 to the end of the run (the proportional regulator       *)
(* leaves T1 about 0.10 C, resp. 0.12 C, above the setpoint).              *)
C7_SettlesNearSetpoint ==
    pc = "done" => \A c \in {1, 2} : SettlesWithin(T1_c[c], Tol015)

\* both runs ended with T1 more than 0.01 C and at most 0.15 C above the
\* setpoint, the band being entered before step 1000
C7_Witness ==
    /\ pc = "done"
    /\ \A c \in {1, 2} :
           /\ T1_c[c][0] - AC_setpoint > Tol015
           /\ T1_c[c][SettleBy - 1] - AC_setpoint \in (Tol001 + 1)..Tol015
           /\ T1_c[c][total_time_0 - 1] - AC_setpoint \in (Tol001 + 1)..Tol015

(* C8: without noise, the mean of the last 500 samples of T2 in the forced *)
(* case is no higher than in the passive case.                             *)
C8_ForcedNoHotter ==
    (pc = "done" /\ ~add_noise) => final_t2[2] <= final_t2[1]

\* both means computed from noise-free runs, the forced one more than a
\* degree below the passive one
C8_Witness ==
    /\ pc = "done"
    /\ ~add_noise
    /\ final_t2[1] - final_t2[2] > Scale
    /\ final_t2[2] > AC_setpoint

(* C9: without noise, over the last 500 steps of each case both T1 and T2  *)
(* vary by less than 0.05 C.                                               *)
C9_SteadyState ==
    (pc = "done" /\ ~add_noise) =>
        \A c \in {1, 2} : Band(T1_c[c]) < Tol005 /\ Band(T2_c[c]) < Tol005

\* noise-free runs whose monitored zone still moves inside the window
C9_Witness ==
    /\ pc = "done"
    /\ ~add_noise
    /\ \A c \in {1, 2} : Band(T2_c[c]) > 0 /\ Band(T2_c[c]) < Tol005
    /\ T2_c[1][0] - T2_c[1][total_time_0 - 1] > Tol005

(* C10: without noise, at every index k of each case                       *)
(* AC_setpoint < T1[k] <= T2[k] <= T_amb.                                  *)
C10_Ordering ==
    ~add_noise =>
        \A c \in {1, 2} : \A j \in DOMAIN T1_c[c] :
            /\ AC_setpoint < T1_c[c][j]
            /\ T1_c[c][j] <= T2_c[c][j]
            /\ T2_c[c][j] <= T_amb

\* both noise-free runs returned, zone 1 strictly between the setpoint and
\* zone 2 at the end, the regulator active above its floor
C10_Witness ==
    /\ pc = "done"
    /\ ~add_noise
    /\ \A c \in {1, 2} :
           /\ Len0(T1_c[c]) = total_time_0
           /\ AC_setpoint < T1_c[c][total_time_0 - 1]
           /\ T1_c[c][total_time_0 - 1] < T2_c[c][total_time_0 - 1]
           /\ CoolOut(T1_c[c][total_time_0 - 1]) > MinActive

====
